---- MODULE Spec2Model ----
(***************************************************************************)
(* Model of the UniswapV2 library of uniswap_rs (src/src/v2/library.rs):   *)
(* pair canonicalisation and CREATE2 address derivation, the single and    *)
(* the batched reserve fetch against a remote ledger, and the constant-    *)
(* product amount arithmetic over U256.                                    *)
(*                                                                         *)
(* The library keeps no state between calls. Each specification draws the  *)
(* inputs of one call in its Init. A synchronous function is one action;   *)
(* an async function is one action up to each of its awaits, and while it  *)
(* is suspended at an await the ledger may change under it.                *)
(***************************************************************************)
EXTENDS Integers, Sequences, FiniteSets, TLC

\* ------------------------------------------------------------------ bounds

\* Token addresses are 0..MaxAddr; 0 is Address::zero() and the numeric order
\* is the byte order of H160 (big-endian bytes compared lexicographically).
MaxAddr == 3

\* Longest path drawn.
MaxPath == 3

\* Small amounts and reserves drawn for the arithmetic are 0..MaxSmall.
MaxSmall == 9

Addresses == 0..MaxAddr

\* ------------------------------------------------------- unbounded naturals

\* U256 values are held exactly, as the sequence of their digits in base
\* 2^15, lowest digit first and no zero digit on top; the empty sequence is 0.
Base == 2^15

RECURSIVE Norm(_)
Norm(s) ==
  IF s = <<>> THEN s
  ELSE IF s[Len(s)] = 0 THEN Norm(SubSeq(s, 1, Len(s) - 1)) ELSE s

\* The digits of a natural number small enough to be written as a literal.
RECURSIVE U(_)
U(n) == IF n = 0 THEN <<>> ELSE <<n % Base>> \o U(n \div Base)

Digit(x, i) == IF i <= Len(x) THEN x[i] ELSE 0

RECURSIVE CmpFrom(_, _, _)
CmpFrom(x, y, i) ==
  IF i = 0 THEN 0
  ELSE IF x[i] < y[i] THEN -1
  ELSE IF x[i] > y[i] THEN 1
  ELSE CmpFrom(x, y, i - 1)

\* -1, 0 or 1 as x is below, equal to or above y.
Cmp(x, y) ==
  IF Len(x) < Len(y) THEN -1
  ELSE IF Len(x) > Len(y) THEN 1
  ELSE CmpFrom(x, y, Len(x))

RECURSIVE AddFrom(_, _, _, _)
AddFrom(x, y, i, carry) ==
  IF i > Len(x) /\ i > Len(y) THEN (IF carry = 0 THEN <<>> ELSE <<carry>>)
  ELSE LET s == Digit(x, i) + Digit(y, i) + carry IN
       <<s % Base>> \o AddFrom(x, y, i + 1, s \div Base)

Add(x, y) == AddFrom(x, y, 1, 0)

RECURSIVE SubFrom(_, _, _, _)
SubFrom(x, y, i, borrow) ==
  IF i > Len(x) THEN <<>>
  ELSE LET d == x[i] - Digit(y, i) - borrow IN
       IF d < 0 THEN <<d + Base>> \o SubFrom(x, y, i + 1, 1)
       ELSE <<d>> \o SubFrom(x, y, i + 1, 0)

\* x - y for x >= y.
Sub(x, y) == Norm(SubFrom(x, y, 1, 0))

RECURSIVE MulDigitFrom(_, _, _, _)
MulDigitFrom(x, m, i, carry) ==
  IF i > Len(x) THEN (IF carry = 0 THEN <<>> ELSE <<carry>>)
  ELSE LET p == x[i] * m + carry IN
       <<p % Base>> \o MulDigitFrom(x, m, i + 1, p \div Base)

\* x * m for one digit m.
MulDigit(x, m) == IF m = 0 THEN <<>> ELSE MulDigitFrom(x, m, 1, 0)

\* x * Base.
ShiftUp(s) == IF s = <<>> THEN <<>> ELSE <<0>> \o s

\* x * (the digits j..1 of y, then those above them already multiplied
\* into acc).
RECURSIVE MulFrom(_, _, _, _)
MulFrom(x, y, j, acc) ==
  IF j = 0 THEN acc
  ELSE LET next == Add(MulDigit(x, y[j]), ShiftUp(acc)) IN
       IF Len(next) >= 0 THEN MulFrom(x, y, j - 1, next) ELSE next

Mul(x, y) == IF x = <<>> THEN <<>> ELSE MulFrom(x, y, Len(y), <<>>)

\* The largest digit k in lo..hi with d * k <= r, given d * lo <= r.
RECURSIVE QuotDigit(_, _, _, _)
QuotDigit(d, r, lo, hi) ==
  IF lo = hi THEN lo
  ELSE LET mid == (lo + hi + 1) \div 2 IN
       IF Cmp(MulDigit(d, mid), r) <= 0 THEN QuotDigit(d, r, mid, hi)
       ELSE QuotDigit(d, r, lo, mid - 1)

\* Long division of the digits i..1 of n by d: rem is what is left of the
\* digits above i and quot the quotient's digits found for them.
RECURSIVE QuotFrom(_, _, _, _, _)
QuotFrom(n, d, i, rem, quot) ==
  IF i = 0 THEN quot
  ELSE LET r == Norm(<<n[i]>> \o rem)
           k == IF Cmp(r, d) < 0 THEN 0 ELSE QuotDigit(d, r, 1, Base - 1)
           left == Sub(r, MulDigit(d, k))
       IN  IF Len(left) >= 0
           THEN QuotFrom(n, d, i - 1, left, <<k>> \o quot)
           ELSE quot

\* floor(n / d) for d # 0.
Div(n, d) == Norm(QuotFrom(n, d, Len(n), <<>>, <<>>))

\* U256::MAX = 2^256 - 1: seventeen digits of fifteen one bits and one more
\* bit on top (17 * 15 + 1 = 256).
MaxU256 == [i \in 1..17 |-> Base - 1] \o <<1>>

\* ------------------------------------------------------- LibraryResult<T>

\* Ok(v), Err(e) of LibraryResult, and the abort of the call by a panic of
\* a U256 operator (overflow, underflow, division by zero).
Ok(v) == [kind |-> "ok", val |-> v]

Err(e) == [kind |-> "err", err |-> e]

Panic == [kind |-> "panic"]

\* ---------------------------------------------------------- U256 operators

\* The value of an expression one of whose U256 operators panicked.
Poison == <<-1>>

\* U256 `*`: panics when the product does not fit in 256 bits.
U256Mul(x, y) ==
  IF x = Poison \/ y = Poison THEN Poison
  ELSE LET p == Mul(x, y) IN IF Cmp(p, MaxU256) > 0 THEN Poison ELSE p

\* U256 `+`: panics when the sum does not fit in 256 bits.
U256Add(x, y) ==
  IF x = Poison \/ y = Poison THEN Poison
  ELSE LET s == Add(x, y) IN IF Cmp(s, MaxU256) > 0 THEN Poison ELSE s

\* U256 `-`: panics when the difference is negative.
U256Sub(x, y) ==
  IF x = Poison \/ y = Poison THEN Poison
  ELSE IF Cmp(x, y) < 0 THEN Poison
  ELSE Sub(x, y)

\* U256 `/`: panics on a zero divisor, truncates otherwise.
U256Div(x, y) ==
  IF x = Poison \/ y = Poison THEN Poison
  ELSE IF y = <<>> THEN Poison
  ELSE Div(x, y)

\* The result of a function whose last expression is Ok(x).
OkOrPanic(x) == IF x = Poison THEN Panic ELSE Ok(x)

\* ----------------------------------------------------------------- inputs

\* 10^18, the unit of the amounts of the tests.
Exp10_18 == Mul(U(1000000000), U(1000000000))

\* Amounts and reserves drawn for one call of the arithmetic: the small ones,
\* the two fee factors, the amounts of the test can_quote, the largest
\* values whose product with a fee factor fits, and U256::MAX.
U256Vals ==
  { U(n) : n \in 0..MaxSmall }
  \cup { U(997), U(1000),
         Mul(U(100), Exp10_18), Mul(U(1000), Exp10_18), Mul(U(5000), Exp10_18),
         Div(MaxU256, U(1000)), Div(MaxU256, U(997)), MaxU256 }

\* The raw (reserve0, reserve1) a pool may hold.
PoolReserves == { <<2, 50>>, <<50, 50>>, <<0, 50>> }

\* Amounts traded along a path.
PathAmountVals == { U(0), U(2), U(5), MaxU256 }

\* --------------------------------------------------------------- factories

\* Factory: the factory's address and the hash of the pair's init code.
Factories ==
  { [address |-> 10, pair_code_hash |-> 100],
    [address |-> 11, pair_code_hash |-> 101] }

\* The factory the amount computations along a path are drawn with.
PathFactory == [address |-> 10, pair_code_hash |-> 100]

\* ------------------------------------------------------------ sort_tokens

sort_tokens_zero_first(a, b) ==
  IF a = 0 \/ b = 0 THEN Err("AddressZero")
  ELSE IF a = b THEN Err("IdenticalAddresses")
  ELSE IF a < b THEN Ok(<<a, b>>) ELSE Ok(<<b, a>>)

sort_tokens(a, b) ==
  IF a = b THEN Err("IdenticalAddresses")
  ELSE LET lo == IF a < b THEN a ELSE b
           hi == IF a < b THEN b ELSE a
       IN  IF lo = 0 THEN Err("AddressZero") ELSE Ok(<<lo, hi>>)

\* --------------------------------------------------------------- pair_for

\* keccak256 as a collision-free hash: the term over its input.
keccak256(bytes) == <<"keccak256", bytes>>

\* The CREATE2 address keccak256(0xff ++ from ++ salt ++ init_code_hash)[12..].
get_create2_address_from_hash(from, salt, init_code_hash) ==
  <<"create2", keccak256(<<255, from, salt, init_code_hash>>)>>

pair_for_unsorted(factory, a, b) ==
  LET st == sort_tokens(a, b) IN
  IF st.kind # "ok" THEN st
  ELSE Ok(get_create2_address_from_hash(
            factory.address, keccak256(<<a, b>>), factory.pair_code_hash))

pair_for(factory, a, b) ==
  LET st == sort_tokens(a, b) IN
  IF st.kind # "ok" THEN st
  ELSE LET from == factory.address
           salt == keccak256(<<st.val[1], st.val[2]>>)
           init_code_hash == factory.pair_code_hash
       IN  Ok(get_create2_address_from_hash(from, salt, init_code_hash))

\* ------------------------------------------------------------ remote ledger

\* What a pool answers to getReserves(): the raw (reserve0, reserve1) of the
\* sorted pair (the block timestamp, third in the tuple, is dropped by every
\* caller), a revert, or data that does not decode as (u128, u128, u32).
PoolStates ==
  { [status |-> "ok", reserve0 |-> r[1], reserve1 |-> r[2]] : r \in PoolReserves }
  \cup { [status |-> "revert", reserve0 |-> 0, reserve1 |-> 0],
         [status |-> "garbage", reserve0 |-> 0, reserve1 |-> 0] }

\* One getReserves() read of one pool.
single_read(pool) == [kind |-> "get_reserves", pool |-> pool]

\* One aggregated read carrying the pools' getReserves() calls in order.
aggregate_read(pools) == [kind |-> "aggregate", pools |-> pools]

\* ------------------------------------------------------------ get_reserves

\* Up to the await: the error of sort_tokens, or the pool whose getReserves()
\* is called.
get_reserves_pair(factory, a, b) ==
  LET st == sort_tokens(a, b) IN
  IF st.kind # "ok" THEN st ELSE pair_for(factory, a, b)

\* From the await on: the result given what the pool answered.
get_reserves(a, b, answer) ==
  IF answer.status # "ok" THEN Err("ContractError")
  ELSE LET address_0 == sort_tokens(a, b).val[1]
           reserve_a == U(answer.reserve0)
           reserve_b == U(answer.reserve1)
       IN  IF a = address_0
           THEN Ok(<<reserve_a, reserve_b>>)
           ELSE Ok(<<reserve_b, reserve_a>>)

\* ------------------------------------------------------ get_reserves_multi

\* sorted[i]: whether leg (a, b) has its reserves swapped after the read.
leg_sorted_when_a_low(a, b) == sort_tokens(a, b).val[1] = a

leg_sorted(a, b) == sort_tokens(a, b).val[1] = b

\* The first leg of the path, in order, whose sort_tokens fails; 0 if none.
first_bad_leg(path) ==
  LET bad == { i \in 1..(Len(path) - 1) :
                 sort_tokens(path[i], path[i + 1]).kind # "ok" }
  IN  IF bad = {} THEN 0 ELSE CHOOSE i \in bad : \A j \in bad : i <= j

\* The pools added to the multicall, one per leg, in leg order.
leg_pools(factory, path) ==
  [i \in 1..(Len(path) - 1) |-> pair_for(factory, path[i], path[i + 1]).val]

\* The remote reads the batched branch issues for these pools.
multi_reads_per_pool(pools) == [i \in DOMAIN pools |-> single_read(pools[i])]

multi_reads(pools) == <<aggregate_read(pools)>>

\* Between the await of Multicall::new, which answered new_ok, and the await
\* of call_raw: the error the call ends with, or the pools of the batch.
get_reserves_multi_batch(new_ok, factory, path) ==
  IF ~new_ok THEN Err("MulticallError")
  ELSE IF first_bad_leg(path) # 0
  THEN LET i == first_bad_leg(path) IN sort_tokens(path[i], path[i + 1])
  ELSE Ok(leg_pools(factory, path))

\* Keeps the answers of the pools that answered, failing nothing.
RECURSIVE answered(_, _, _)
answered(chain, pools, i) ==
  IF i > Len(pools) THEN <<>>
  ELSE IF chain.pools[pools[i]].status = "revert"
       THEN answered(chain, pools, i + 1)
       ELSE <<chain.pools[pools[i]]>> \o answered(chain, pools, i + 1)

call_raw_allow_failure(chain, pools) == Ok(answered(chain, pools, 1))

\* multicall.call_raw() of Multicall version 1 with allow_failure = false,
\* served by the ledger as it is: one reverting call reverts the batch,
\* otherwise the answers in call order.
call_raw(chain, pools) ==
  IF \E i \in DOMAIN pools : chain.pools[pools[i]].status = "revert"
  THEN Err("MulticallError")
  ELSE Ok([i \in DOMAIN pools |-> chain.pools[pools[i]]])

\* The decoding loop over tokens zipped with sorted: the first token that
\* does not decode fails the call; entries past the tokens keep (0, 0).
decode_reserves(tokens, sorted, l) ==
  LET n == IF Len(tokens) < l THEN Len(tokens) ELSE l
      bad == { i \in 1..n : tokens[i].status # "ok" }
  IN  IF bad # {} THEN Err("ContractError")
      ELSE Ok([i \in 1..l |->
                 IF i > n THEN <<U(0), U(0)>>
                 ELSE IF sorted[i]
                      THEN <<U(tokens[i].reserve1), U(tokens[i].reserve0)>>
                      ELSE <<U(tokens[i].reserve0), U(tokens[i].reserve1)>>])

\* The result on a path of at least 2 tokens given what the awaited read
\* returned: get_reserves' result for 2 tokens, call_raw's for more.
get_reserves_multi(path, got) ==
  IF Len(path) < 2 THEN Err("InvalidPath")
  ELSE IF got.kind # "ok" THEN got
  ELSE IF Len(path) = 2 THEN Ok(<<got.val>>)
  ELSE LET l == Len(path) - 1
           sorted == [i \in 1..l |-> leg_sorted(path[i], path[i + 1])]
       IN  decode_reserves(got.val, sorted, l)

\* ---------------------------------------------------------------- amounts

quote(amount_a, reserve_a, reserve_b) ==
  IF amount_a = U(0) THEN Err("InsufficientAmount")
  ELSE IF reserve_a = U(0) \/ reserve_b = U(0) THEN Err("InsufficientLiquidity")
  ELSE OkOrPanic(U256Div(U256Mul(amount_a, reserve_b), reserve_a))

get_amount_out(amount_in, reserve_in, reserve_out) ==
  IF amount_in = U(0) THEN Err("InsufficientInputAmount")
  ELSE IF reserve_in = U(0) \/ reserve_out = U(0) THEN Err("InsufficientLiquidity")
  ELSE LET amount_in_with_fee == U256Mul(amount_in, U(997))
           numerator == U256Mul(amount_in_with_fee, reserve_out)
           denominator == U256Add(U256Mul(reserve_in, U(1000)), amount_in_with_fee)
       IN  OkOrPanic(U256Div(numerator, denominator))

get_amount_in_plus_two(amount_out, reserve_in, reserve_out) ==
  IF amount_out = U(0) THEN Err("InsufficientOutputAmount")
  ELSE IF reserve_in = U(0) \/ reserve_out = U(0) THEN Err("InsufficientLiquidity")
  ELSE LET numerator == U256Mul(U256Mul(reserve_in, amount_out), U(1000))
           denominator == U256Mul(U256Sub(reserve_out, amount_out), U(997))
       IN  OkOrPanic(U256Add(U256Div(numerator, denominator), U(2)))

get_amount_in(amount_out, reserve_in, reserve_out) ==
  IF amount_out = U(0) THEN Err("InsufficientOutputAmount")
  ELSE IF reserve_in = U(0) \/ reserve_out = U(0) THEN Err("InsufficientLiquidity")
  ELSE LET numerator == U256Mul(U256Mul(reserve_in, amount_out), U(1000))
           denominator == U256Mul(U256Sub(reserve_out, amount_out), U(997))
       IN  OkOrPanic(U256Add(U256Div(numerator, denominator), U(1)))

\* The forward loop over the reserves from leg i on.
RECURSIVE fold_out(_, _, _)
fold_out(amounts, reserves, i) ==
  IF i > Len(reserves) THEN Ok(amounts)
  ELSE LET r == get_amount_out(amounts[i], reserves[i][1], reserves[i][2]) IN
       IF r.kind # "ok" THEN r
       ELSE fold_out([amounts EXCEPT ![i + 1] = r.val], reserves, i + 1)

\* The loop with every leg priced on the first leg's reserves.
RECURSIVE fold_out_first_reserves(_, _, _)
fold_out_first_reserves(amounts, reserves, i) ==
  IF i > Len(reserves) THEN Ok(amounts)
  ELSE LET r == get_amount_out(amounts[i], reserves[1][1], reserves[1][2]) IN
       IF r.kind # "ok" THEN r
       ELSE fold_out_first_reserves([amounts EXCEPT ![i + 1] = r.val], reserves, i + 1)

get_amounts_out_first_reserves(amount_in, path, reserves) ==
  LET l == Len(path) IN
  IF l < 2 THEN Err("InvalidPath")
  ELSE LET amounts == [i \in 1..l |-> IF i = 1 THEN amount_in ELSE U(0)] IN
       IF reserves.kind # "ok" THEN reserves
       ELSE fold_out_first_reserves(amounts, reserves.val, 1)

\* The result given what the awaited get_reserves_multi returned (which is
\* not consulted on a path of fewer than 2 tokens).
get_amounts_out(amount_in, path, reserves) ==
  LET l == Len(path) IN
  IF l < 2 THEN Err("InvalidPath")
  ELSE LET amounts == [i \in 1..l |-> IF i = 1 THEN amount_in ELSE U(0)] IN
       IF reserves.kind # "ok" THEN reserves
       ELSE fold_out(amounts, reserves.val, 1)

\* The reversed loop over the reserves from leg i down.
RECURSIVE fold_in(_, _, _)
fold_in(amounts, reserves, i) ==
  IF i < 1 THEN Ok(amounts)
  ELSE LET r == get_amount_in(amounts[i + 1], reserves[i][1], reserves[i][2]) IN
       IF r.kind # "ok" THEN r
       ELSE fold_in([amounts EXCEPT ![i] = r.val], reserves, i - 1)

\* The loop with each leg's reserves taken in the opposite direction.
RECURSIVE fold_in_swapped(_, _, _)
fold_in_swapped(amounts, reserves, i) ==
  IF i < 1 THEN Ok(amounts)
  ELSE LET r == get_amount_in(amounts[i + 1], reserves[i][2], reserves[i][1]) IN
       IF r.kind # "ok" THEN r
       ELSE fold_in_swapped([amounts EXCEPT ![i] = r.val], reserves, i - 1)

get_amounts_in_swapped(amount_out, path, reserves) ==
  LET l == Len(path) IN
  IF l < 2 THEN Err("InvalidPath")
  ELSE LET amounts == [i \in 1..l |-> IF i = l THEN amount_out ELSE U(0)] IN
       IF reserves.kind # "ok" THEN reserves
       ELSE fold_in_swapped(amounts, reserves.val, l - 1)

\* The result given what the awaited get_reserves_multi returned (which is
\* not consulted on a path of fewer than 2 tokens).
get_amounts_in(amount_out, path, reserves) ==
  LET l == Len(path) IN
  IF l < 2 THEN Err("InvalidPath")
  ELSE LET amounts == [i \in 1..l |-> IF i = l THEN amount_out ELSE U(0)] IN
       IF reserves.kind # "ok" THEN reserves
       ELSE fold_in(amounts, reserves.val, l - 1)

\* ------------------------------------------------------------------ state

\* The inputs of the call (factory, a, b, path, amount, reserve_in,
\* reserve_out); the remote ledger the client reaches (chain); the library
\* function called (op, "none" before the call) and where the call stands
\* (pc: "ready" before it, the await it is suspended at, "done" once it
\* returned); what Multicall::new gave the call (multicall); what the call
\* returned (result); the result of the call before it when two are chained
\* (prev); and the remote reads the call issued, in order (calls).
\*
\* A call awaiting another library function (get_reserves_multi awaiting
\* get_reserves, get_amounts_out and get_amounts_in awaiting
\* get_reserves_multi) is suspended where that function is suspended: at
\* the read of the pool ("await_get_reserves"), at Multicall::new
\* ("await_multicall_new") or at call_raw ("await_call_raw").
VARIABLES factory, a, b, path, amount, reserve_in, reserve_out, chain,
          op, pc, multicall, result, prev, calls

vars == <<factory, a, b, path, amount, reserve_in, reserve_out, chain,
          op, pc, multicall, result, prev, calls>>

inputs == <<factory, a, b, path, amount, reserve_in, reserve_out>>

None == [kind |-> "none"]

\* The factory of a call that takes none.
NoFactory == [address |-> 0, pair_code_hash |-> 0]

\* The paths drawn: every sequence of at most MaxPath addresses.
Paths == UNION { [1..n -> Addresses] : n \in 0..MaxPath }

\* The pools of the legs of the path that are valid pairs.
PathPools(f, p) ==
  { pair_for(f, p[i], p[i + 1]).val :
      i \in { j \in 1..(Len(p) - 1) : sort_tokens(p[j], p[j + 1]).kind = "ok" } }

\* The ledgers a call on the path may meet: a state for every pool of the
\* path, and whether the multicall contract can be reached.
Ledgers(f, p) == [pools : [PathPools(f, p) -> PoolStates], multicall_ok : BOOLEAN]

NotCalled ==
  /\ op = "none"
  /\ pc = "ready"
  /\ multicall = "none"
  /\ result = None
  /\ prev = None
  /\ calls = <<>>

\* A call on a pair of tokens: sort_tokens, pair_for, get_reserves.
InitPair ==
  /\ factory \in Factories
  /\ a \in Addresses
  /\ b \in Addresses
  /\ path = <<a, b>>
  /\ amount = U(0)
  /\ reserve_in = U(0)
  /\ reserve_out = U(0)
  /\ chain \in Ledgers(factory, path)
  /\ NotCalled

\* A call of the amount arithmetic: quote, get_amount_out, get_amount_in.
InitArith ==
  /\ factory = NoFactory
  /\ a = 0
  /\ b = 0
  /\ path = <<>>
  /\ amount \in U256Vals
  /\ reserve_in \in U256Vals
  /\ reserve_out \in U256Vals
  /\ chain = [pools |-> <<>>, multicall_ok |-> TRUE]
  /\ NotCalled

\* A reserve fetch along a path.
InitReserves ==
  /\ factory \in Factories
  /\ a = 0
  /\ b = 0
  /\ path \in Paths
  /\ amount = U(0)
  /\ reserve_in = U(0)
  /\ reserve_out = U(0)
  /\ chain \in Ledgers(factory, path)
  /\ NotCalled

\* An amount computation along a path.
InitAmounts ==
  /\ factory = PathFactory
  /\ a = 0
  /\ b = 0
  /\ path \in Paths
  /\ amount \in PathAmountVals
  /\ reserve_in = U(0)
  /\ reserve_out = U(0)
  /\ chain \in Ledgers(factory, path)
  /\ NotCalled

\* ---------------------------------------------------------------- actions

SortTokens ==
  /\ pc = "ready"
  /\ op' = "sort_tokens"
  /\ pc' = "done"
  /\ result' = sort_tokens(a, b)
  /\ UNCHANGED <<inputs, chain, multicall, prev, calls>>

PairFor ==
  /\ pc = "ready"
  /\ op' = "pair_for"
  /\ pc' = "done"
  /\ result' = pair_for(factory, a, b)
  /\ UNCHANGED <<inputs, chain, multicall, prev, calls>>

\* get_reserves up to its await: it returns the error of sort_tokens, or
\* sends getReserves() to the pool and is suspended.
GetReservesCall ==
  /\ pc = "ready"
  /\ op' = "get_reserves"
  /\ LET pair == get_reserves_pair(factory, a, b) IN
     IF pair.kind # "ok"
     THEN /\ pc' = "done"
          /\ result' = pair
          /\ calls' = calls
     ELSE /\ pc' = "await_get_reserves"
          /\ result' = result
          /\ calls' = <<single_read(pair.val)>>
  /\ UNCHANGED <<inputs, chain, multicall, prev>>

\* Where get_reserves_multi stands when it first stops on the path: returned
\* with InvalidPath or with the error of get_reserves' sort_tokens, suspended
\* in get_reserves on the read of the only pool, or suspended on
\* Multicall::new.
get_reserves_multi_start(f, p) ==
  IF Len(p) < 2
  THEN [pc |-> "done", result |-> Err("InvalidPath"), calls |-> <<>>]
  ELSE IF Len(p) = 2
  THEN LET pair == get_reserves_pair(f, p[1], p[2]) IN
       IF pair.kind # "ok"
       THEN [pc |-> "done", result |-> pair, calls |-> <<>>]
       ELSE [pc |-> "await_get_reserves", result |-> None,
             calls |-> <<single_read(pair.val)>>]
  ELSE [pc |-> "await_multicall_new", result |-> None, calls |-> <<>>]

GetReservesMultiCall ==
  /\ pc = "ready"
  /\ op' = "get_reserves_multi"
  /\ pc' = get_reserves_multi_start(factory, path).pc
  /\ result' = get_reserves_multi_start(factory, path).result
  /\ calls' = get_reserves_multi_start(factory, path).calls
  /\ UNCHANGED <<inputs, chain, multicall, prev>>

\* get_amounts_out up to the first await inside its get_reserves_multi; an
\* error of get_reserves_multi is the error of get_amounts_out.
GetAmountsOutCall ==
  /\ pc = "ready"
  /\ op' = "get_amounts_out"
  /\ pc' = get_reserves_multi_start(factory, path).pc
  /\ result' = get_reserves_multi_start(factory, path).result
  /\ calls' = get_reserves_multi_start(factory, path).calls
  /\ UNCHANGED <<inputs, chain, multicall, prev>>

GetAmountsInCall ==
  /\ pc = "ready"
  /\ op' = "get_amounts_in"
  /\ pc' = get_reserves_multi_start(factory, path).pc
  /\ result' = get_reserves_multi_start(factory, path).result
  /\ calls' = get_reserves_multi_start(factory, path).calls
  /\ UNCHANGED <<inputs, chain, multicall, prev>>

\* What the function called returns once its get_reserves_multi returned.
Returned(reserves) ==
  CASE op = "get_reserves_multi" -> reserves
    [] op = "get_amounts_out" -> get_amounts_out(amount, path, reserves)
    [] op = "get_amounts_in" -> get_amounts_in(amount, path, reserves)

\* The pool answers getReserves() from the ledger as it is now; get_reserves
\* resumes and returns, and so do the functions awaiting it.
AwaitGetReserves ==
  /\ pc = "await_get_reserves"
  /\ pc' = "done"
  /\ LET res == get_reserves(path[1], path[2], chain.pools[calls[1].pool]) IN
     result' = IF op = "get_reserves" THEN res
               ELSE Returned(get_reserves_multi(path, res))
  /\ UNCHANGED <<inputs, chain, op, multicall, prev, calls>>

\* Multicall::new is answered by the ledger as it is now; get_reserves_multi
\* resumes, and either returns an error or sends the batch and is suspended.
AwaitMulticallNew ==
  /\ pc = "await_multicall_new"
  /\ multicall' = IF chain.multicall_ok THEN "built" ELSE "failed"
  /\ LET batch == get_reserves_multi_batch(chain.multicall_ok, factory, path) IN
     IF batch.kind # "ok"
     THEN /\ pc' = "done"
          /\ result' = batch
          /\ calls' = calls
     ELSE /\ pc' = "await_call_raw"
          /\ result' = result
          /\ calls' = multi_reads(batch.val)
  /\ UNCHANGED <<inputs, chain, op, prev>>

\* The batch is answered by the ledger as it is now; get_reserves_multi
\* resumes and returns, and so does the function awaiting it.
AwaitCallRaw ==
  /\ pc = "await_call_raw"
  /\ pc' = "done"
  /\ result' = Returned(get_reserves_multi(path,
                          call_raw(chain, leg_pools(factory, path))))
  /\ UNCHANGED <<inputs, chain, op, multicall, prev, calls>>

\* While a call is suspended the ledger moves on: a pool of the path changes
\* its reserves, starts or stops reverting, or the multicall contract becomes
\* reachable or unreachable.
LedgerChanges ==
  /\ pc \in {"await_get_reserves", "await_multicall_new", "await_call_raw"}
  /\ \/ \E p \in DOMAIN chain.pools, s \in PoolStates :
          /\ s # chain.pools[p]
          /\ chain' = [chain EXCEPT !.pools[p] = s]
     \/ chain' = [chain EXCEPT !.multicall_ok = ~chain.multicall_ok]
  /\ UNCHANGED <<inputs, op, pc, multicall, result, prev, calls>>

Quote ==
  /\ pc = "ready"
  /\ op' = "quote"
  /\ pc' = "done"
  /\ result' = quote(amount, reserve_in, reserve_out)
  /\ UNCHANGED <<inputs, chain, multicall, prev, calls>>

GetAmountOut ==
  /\ pc = "ready"
  /\ op' = "get_amount_out"
  /\ pc' = "done"
  /\ result' = get_amount_out(amount, reserve_in, reserve_out)
  /\ UNCHANGED <<inputs, chain, multicall, prev, calls>>

GetAmountIn ==
  /\ pc = "ready"
  /\ op' = "get_amount_in"
  /\ pc' = "done"
  /\ result' = get_amount_in(amount, reserve_in, reserve_out)
  /\ UNCHANGED <<inputs, chain, multicall, prev, calls>>

\* get_amount_in called on the amount get_amount_out returned, with the
\* same reserves.
GetAmountInOfOut ==
  /\ op = "get_amount_out"
  /\ result.kind = "ok"
  /\ op' = "get_amount_in_of_out"
  /\ prev' = result
  /\ result' = get_amount_in(result.val, reserve_in, reserve_out)
  /\ UNCHANGED <<inputs, chain, pc, multicall, calls>>

\* ---------------------------------------------------------- specifications

NextPair ==
  SortTokens \/ PairFor \/ GetReservesCall \/ AwaitGetReserves \/ LedgerChanges

SpecPair == InitPair /\ [][NextPair]_vars

NextArith == Quote \/ GetAmountOut \/ GetAmountIn \/ GetAmountInOfOut

SpecArith == InitArith /\ [][NextArith]_vars

NextReserves ==
  \/ GetReservesMultiCall
  \/ AwaitGetReserves
  \/ AwaitMulticallNew
  \/ AwaitCallRaw
  \/ LedgerChanges

SpecReserves == InitReserves /\ [][NextReserves]_vars

NextAmounts ==
  \/ GetAmountsOutCall
  \/ GetAmountsInCall
  \/ AwaitGetReserves
  \/ AwaitMulticallNew
  \/ AwaitCallRaw
  \/ LedgerChanges

SpecAmounts == InitAmounts /\ [][NextAmounts]_vars

Init == InitPair \/ InitArith \/ InitReserves \/ InitAmounts

Next == NextPair \/ NextArith \/ NextReserves \/ NextAmounts

Spec == Init /\ [][Next]_vars

\* ------------------------------------------------------------------ claims

\* The claims are about calls that returned; of a call that fetched reserves
\* the ledger is then as the call's last read met it, since the ledger moves
\* only while a call is suspended.
Done(f) == op = f /\ pc = "done"

\* The answer of the pool `token` forms with `other` under the factory of the
\* call.
PoolOf(token, other) == chain.pools[pair_for(factory, token, other).val]

\* The reserve of `token` in that pool: reserve0 belongs to the lower address
\* of the pair.
ReserveOf(token, other) ==
  IF token < other THEN U(PoolOf(token, other).reserve0)
  ELSE U(PoolOf(token, other).reserve1)

\* Every consecutive pair of the path is a valid pair.
ValidPath == \A i \in 1..(Len(path) - 1) : path[i] # path[i + 1] /\ path[i] # 0 /\ path[i + 1] # 0

\* Every remote interaction of the fetch along the path succeeded.
ReadsSucceed ==
  /\ multicall # "failed"
  /\ \A p \in DOMAIN chain.pools : chain.pools[p].status = "ok"

\* C1: sort_tokens fails with IdenticalAddresses when a = b (the zero address
\* twice included), with AddressZero when a # b and one of them is zero, and
\* otherwise returns (low, high) with low < high and {low, high} = {a, b}.
C1_SortTokens ==
  Done("sort_tokens") =>
    /\ a = b => result = Err("IdenticalAddresses")
    /\ a # b /\ (a = 0 \/ b = 0) => result = Err("AddressZero")
    /\ a # b /\ a # 0 /\ b # 0 =>
         /\ result.kind = "ok"
         /\ result.val[1] < result.val[2]
         /\ {result.val[1], result.val[2]} = {a, b}

\* sort_tokens was called on the zero address twice and reported identical
\* addresses.
C1_Witness ==
  /\ Done("sort_tokens")
  /\ a = 0
  /\ b = 0
  /\ result = Err("IdenticalAddresses")

\* C2: for distinct non-zero tokens pair_for succeeds, gives the address it
\* gives for the swapped arguments, and issues no remote read.
C2_PairForSymmetric ==
  Done("pair_for") /\ a # b /\ a # 0 /\ b # 0 =>
    /\ result.kind = "ok"
    /\ result = pair_for(factory, b, a)
    /\ calls = <<>>

\* pair_for was called with the higher token first and returned an address.
C2_Witness ==
  /\ Done("pair_for")
  /\ a > b
  /\ b # 0
  /\ result.kind = "ok"

\* C3: on a valid path of n >= 2 tokens whose reads succeed,
\* get_reserves_multi returns n-1 pairs in leg order, pair i being (reserve
\* of path[i], reserve of path[i+1]) in the pool of leg i as the read met it,
\* which is what get_reserves returns for that leg on that answer of the pool.
C3_ReservesInLegDirection ==
  Done("get_reserves_multi") /\ Len(path) >= 2 /\ ValidPath /\ ReadsSucceed =>
    /\ result.kind = "ok"
    /\ Len(result.val) = Len(path) - 1
    /\ \A i \in 1..(Len(path) - 1) :
         /\ result.val[i] = <<ReserveOf(path[i], path[i + 1]),
                              ReserveOf(path[i + 1], path[i])>>
         /\ Ok(result.val[i]) = get_reserves(path[i], path[i + 1],
                                             PoolOf(path[i], path[i + 1]))

\* A batched fetch returned a leg that runs from the higher token to the
\* lower one in a pool whose two reserves differ.
C3_Witness ==
  /\ Done("get_reserves_multi")
  /\ Len(path) = 3
  /\ result.kind = "ok"
  /\ path[1] > path[2]
  /\ result.val[1][1] # result.val[1][2]

\* C4: on a valid path of more than 2 tokens, a failing read inside the batch
\* (or a multicall that cannot be set up) makes get_reserves_multi return a
\* ContractError or MulticallError; a vector is returned only when every read
\* succeeded, so none of its entries is the placeholder (0, 0).
C4_BatchAllOrNothing ==
  Done("get_reserves_multi") /\ Len(path) > 2 =>
    /\ ValidPath /\ ~ReadsSucceed =>
         /\ result.kind = "err"
         /\ result.err \in {"MulticallError", "ContractError"}
    /\ result.kind = "ok" =>
         /\ ReadsSucceed
         /\ Len(result.val) = Len(path) - 1
         /\ \A i \in 1..(Len(path) - 1) : result.val[i] # <<U(0), U(0)>>

\* A batch whose first pool answered and whose second pool reverted failed as
\* a whole.
C4_Witness ==
  /\ Done("get_reserves_multi")
  /\ Len(path) = 3
  /\ ValidPath
  /\ multicall = "built"
  /\ PoolOf(path[1], path[2]).status = "ok"
  /\ PoolOf(path[2], path[3]).status = "revert"
  /\ result = Err("MulticallError")

\* The reads the claim C5 expects of a call on the path.
ExpectedReads ==
  IF Len(path) = 2
  THEN <<single_read(pair_for(factory, path[1], path[2]).val)>>
  ELSE <<aggregate_read([i \in 1..(Len(path) - 1) |->
                           pair_for(factory, path[i], path[i + 1]).val])>>

\* C5 as stated: every call on a valid path of more than 2 tokens issues
\* exactly one aggregated read of the n-1 pools in leg order and no single
\* read, a call on a valid path of 2 tokens issues exactly one single read,
\* and a call on a shorter path fails with InvalidPath and issues no read.
C5_Original ==
  Done("get_reserves_multi") =>
    /\ Len(path) < 2 => result = Err("InvalidPath") /\ calls = <<>>
    /\ Len(path) >= 2 /\ ValidPath => calls = ExpectedReads

\* C5 amended: as C5, for a path of more than 2 tokens provided
\* Multicall::new succeeded; when it failed, the call fails with
\* MulticallError and issues no read.
C5_ReadsIssued ==
  Done("get_reserves_multi") =>
    /\ Len(path) < 2 => result = Err("InvalidPath") /\ calls = <<>>
    /\ Len(path) = 2 /\ ValidPath => calls = ExpectedReads
    /\ Len(path) > 2 /\ ValidPath /\ multicall = "built" => calls = ExpectedReads
    /\ Len(path) > 2 /\ multicall = "failed" =>
         result = Err("MulticallError") /\ calls = <<>>

\* A call on a valid path of the longest length issued one aggregated read.
C5_Witness ==
  /\ Done("get_reserves_multi")
  /\ Len(path) = MaxPath
  /\ ValidPath
  /\ Len(calls) = 1
  /\ calls[1].kind = "aggregate"
  /\ Len(calls[1].pools) = MaxPath - 1

\* C6: get_amount_in with positive arguments and amount_out >= reserve_out
\* returns the error InsufficientLiquidity.
C6_Original ==
  Done("get_amount_in") /\ amount # U(0) /\ reserve_in # U(0)
    /\ reserve_out # U(0) /\ Cmp(amount, reserve_out) >= 0 =>
      result = Err("InsufficientLiquidity")

\* C7: get_amount_out fails with InsufficientInputAmount on a zero amount,
\* with InsufficientLiquidity on a zero reserve otherwise, and on positive
\* arguments returns floor(amount_in*997*reserve_out /
\* (reserve_in*1000 + amount_in*997)) computed over the unbounded integers.
C7_Original ==
  Done("get_amount_out") =>
    /\ amount = U(0) => result = Err("InsufficientInputAmount")
    /\ amount # U(0) /\ (reserve_in = U(0) \/ reserve_out = U(0)) =>
         result = Err("InsufficientLiquidity")
    /\ amount # U(0) /\ reserve_in # U(0) /\ reserve_out # U(0) =>
         /\ result.kind = "ok"
         /\ result.val = Div(Mul(Mul(amount, U(997)), reserve_out),
                             Add(Mul(reserve_in, U(1000)), Mul(amount, U(997))))

\* C8 as stated: whenever the amount out that get_amount_out returned is
\* below reserve_out, get_amount_in on it succeeds with a result >= amount_in.
C8_Original ==
  Done("get_amount_in_of_out") /\ Cmp(prev.val, reserve_out) < 0 =>
    /\ result.kind = "ok"
    /\ Cmp(result.val, amount) >= 0

\* C8 amended: whenever the amount out that get_amount_out returned is
\* positive and below reserve_out, get_amount_in on it succeeds with a result
\* of at most amount_in + 1; on an amount out of 0 it fails with
\* InsufficientOutputAmount.
C8_RoundTrip ==
  Done("get_amount_in_of_out") =>
    /\ prev.val = U(0) => result = Err("InsufficientOutputAmount")
    /\ prev.val # U(0) /\ Cmp(prev.val, reserve_out) < 0 =>
         /\ result.kind = "ok"
         /\ Cmp(result.val, Add(amount, U(1))) <= 0

\* A round trip whose amount out was rounded down asked for less than the
\* amount in that produced it.
C8_Witness ==
  /\ Done("get_amount_in_of_out")
  /\ prev.val # U(0)
  /\ Cmp(prev.val, reserve_out) < 0
  /\ result.kind = "ok"
  /\ Cmp(result.val, amount) < 0

\* The outcome of pricing the first i-1 legs forward, one after the other,
\* each on its own pool's reserves in the direction path[j] -> path[j+1]:
\* the amount at position i, or the outcome of the first leg that failed.
RECURSIVE HopForward(_)
HopForward(i) ==
  IF i = 1 THEN Ok(amount)
  ELSE LET before == HopForward(i - 1) IN
       IF before.kind # "ok" THEN before
       ELSE get_amount_out(before.val, ReserveOf(path[i - 1], path[i]),
                           ReserveOf(path[i], path[i - 1]))

\* The outcome of pricing the legs from the last one down to leg i.
RECURSIVE HopBackward(_)
HopBackward(i) ==
  IF i = Len(path) THEN Ok(amount)
  ELSE LET after == HopBackward(i + 1) IN
       IF after.kind # "ok" THEN after
       ELSE get_amount_in(after.val, ReserveOf(path[i], path[i + 1]),
                          ReserveOf(path[i + 1], path[i]))

\* C9: get_amounts_out fails with InvalidPath on a path of fewer than 2
\* tokens; a vector it returns has one amount per token, starts with
\* amount_in and has amounts[i+1] = get_amount_out(amounts[i], leg i's own
\* reserves as the read met them); when the reserves are fetched, the first
\* leg whose get_amount_out fails ends the call with that leg's outcome and
\* no vector, and when they are not, the call fails.
C9_AmountsOut ==
  Done("get_amounts_out") =>
    /\ Len(path) < 2 => result = Err("InvalidPath")
    /\ result.kind = "ok" =>
         /\ Len(result.val) = Len(path)
         /\ result.val[1] = amount
         /\ \A i \in 1..(Len(path) - 1) :
              get_amount_out(result.val[i], ReserveOf(path[i], path[i + 1]),
                             ReserveOf(path[i + 1], path[i]))
                = Ok(result.val[i + 1])
    /\ Len(path) >= 2 /\ ValidPath /\ ReadsSucceed =>
         /\ result.kind = "ok" <=> HopForward(Len(path)).kind = "ok"
         /\ result.kind # "ok" => result = HopForward(Len(path))
    /\ Len(path) >= 2 /\ ~(ValidPath /\ ReadsSucceed) => result.kind = "err"

\* A two-hop computation over two pools of different reserves returned
\* positive amounts.
C9_Witness ==
  /\ Done("get_amounts_out")
  /\ Len(path) = 3
  /\ result.kind = "ok"
  /\ result.val[3] # U(0)
  /\ <<ReserveOf(path[1], path[2]), ReserveOf(path[2], path[1])>>
       # <<ReserveOf(path[2], path[3]), ReserveOf(path[3], path[2])>>

\* C10: get_amounts_in fails with InvalidPath on a path of fewer than 2
\* tokens; a vector it returns has one amount per token, ends with
\* amount_out and has amounts[i] = get_amount_in(amounts[i+1], reserves of
\* leg i in the direction path[i] -> path[i+1] as the read met them); when
\* the reserves are fetched, the first leg that fails walking from the last
\* leg down ends the call with that leg's outcome and no vector, and when
\* they are not, the call fails.
C10_AmountsIn ==
  Done("get_amounts_in") =>
    /\ Len(path) < 2 => result = Err("InvalidPath")
    /\ result.kind = "ok" =>
         /\ Len(result.val) = Len(path)
         /\ result.val[Len(path)] = amount
         /\ \A i \in 1..(Len(path) - 1) :
              get_amount_in(result.val[i + 1], ReserveOf(path[i], path[i + 1]),
                            ReserveOf(path[i + 1], path[i]))
                = Ok(result.val[i])
    /\ Len(path) >= 2 /\ ValidPath /\ ReadsSucceed =>
         /\ result.kind = "ok" <=> HopBackward(1).kind = "ok"
         /\ result.kind # "ok" => result = HopBackward(1)
    /\ Len(path) >= 2 /\ ~(ValidPath /\ ReadsSucceed) => result.kind = "err"

\* A two-hop computation walked back over two pools, the first of which has
\* different reserves on its two sides.
C10_Witness ==
  /\ Done("get_amounts_in")
  /\ Len(path) = 3
  /\ result.kind = "ok"
  /\ ReserveOf(path[1], path[2]) # ReserveOf(path[2], path[1])
  /\ path[1] # path[3]

====
